---------------------------- MODULE Spec2Model ----------------------------
(***************************************************************************)
(* Model of ttcli/option.py (tastytrade-cli): the option commands call,    *)
(* put, strangle and chain, the event aggregators listen_quotes and        *)
(* listen_greeks, and the delta selection scan.                            *)
(*                                                                         *)
(* Units.  Prices (bid, ask, limit price) are integers in cents.  A Greeks *)
(* event's delta is an integer in hundredths, so the code's                *)
(* g.delta * Decimal(100) is the stored integer.  Strike prices and widths *)
(* are integers.                                                           *)
(*                                                                         *)
(* Python values.  An optional int (click option not given) is <<>> for    *)
(* None and <<v>> for the value v.  A Python dict is a function whose      *)
(* DOMAIN is its key set; the insertion order a dict also keeps is chosen  *)
(* where the code iterates it (DictOrders).                                *)
(***************************************************************************)
EXTENDS Integers, Sequences, FiniteSets, TLC

(* ------------------------------ bounds -------------------------------- *)

\* number of strikes of the modelled expiration (strike prices 1..NStrikes)
NStrikes == 4
\* longest feed the aggregator harness (SpecAgg) draws
MaxFeed == 3
\* largest expected count n the aggregator harness draws
MaxN == 2
\* longest list of readings the selection harness (SpecSel) draws
MaxReadings == 3
\* most expirations of a chain the expiration harness (SpecExp) draws
MaxExps == 3

(* --------------------------- Python values ---------------------------- *)

None == << >>
Some(v) == << v >>
Val(o) == o[1]

\* Python truthiness of an optional number: None and 0 are falsy
Truthy(o) == o # None /\ Val(o) # 0

Abs(x) == IF x < 0 THEN -x ELSE x

EmptyDict == [x \in {} |-> 0]

\* d[k] = v : overwrites the entry of an existing key, adds a new key
DictSet(d, k, v) == [x \in (DOMAIN d) \cup {k} |-> IF x = k THEN v ELSE d[x]]

DictLen(d) == Cardinality(DOMAIN d)

\* the sequences that list every element of the set s exactly once
RECURSIVE SetOrders(_)
SetOrders(s) ==
    IF s = {} THEN { << >> }
    ELSE UNION { { << x >> \o rest : rest \in SetOrders(s \ {x}) } : x \in s }

\* list(d.values()) for each insertion order the dict may have
DictOrders(d) == { [i \in 1..Len(o) |-> d[o[i]]] : o \in SetOrders(DOMAIN d) }

(* ------------------------- symbols and events ------------------------- *)

\* a streamer (feed) symbol; side "C" / "P" of strike k, or the underlying
Sym(side, k) == [side |-> side, k |-> k]
Underlying == Sym("U", 0)
\* the Python None where the code holds a symbol or event, and a local name
\* that was never assigned
NoneSym == Sym("None", 0)
Unbound == Sym("unbound", 0)

call_streamer_symbol(s) == Sym("C", s)
put_streamer_symbol(s) == Sym("P", s)

QuoteEvent(sym, b, a) == [eventSymbol |-> sym, bidPrice |-> b, askPrice |-> a]
GreeksEvent(sym, d) == [eventSymbol |-> sym, delta |-> d]

(* --------------------------- the aggregators -------------------------- *)

\* variant of ListenQuotesStore without the skip test
ListenQuotesStoreAll(quote_dict, quote, skip) ==
    DictSet(quote_dict, quote.eventSymbol, quote)

\* variant of ListenQuotesStore that keeps the first quote of a symbol
ListenQuotesKeepFirst(quote_dict, quote, skip) ==
    IF quote.eventSymbol = skip \/ quote.eventSymbol \in DOMAIN quote_dict
    THEN quote_dict
    ELSE DictSet(quote_dict, quote.eventSymbol, quote)

\* one iteration of listen_quotes' loop on the event `quote`:
\* if quote.eventSymbol != skip: quote_dict[quote.eventSymbol] = quote
ListenQuotesStore(quote_dict, quote, skip) ==
    IF quote.eventSymbol # skip
    THEN DictSet(quote_dict, quote.eventSymbol, quote)
    ELSE quote_dict

\* variant of ListenQuotesDone that returns a mapping one symbol short
ListenQuotesDoneShort(quote_dict, n_quotes) == DictLen(quote_dict) + 1 = n_quotes

\* if len(quote_dict) == n_quotes: return quote_dict
ListenQuotesDone(quote_dict, n_quotes) == DictLen(quote_dict) = n_quotes

\* variant of ListenGreeksStore that keeps the first reading of a symbol
ListenGreeksKeepFirst(greeks_dict, greeks) ==
    IF greeks.eventSymbol \in DOMAIN greeks_dict
    THEN greeks_dict
    ELSE DictSet(greeks_dict, greeks.eventSymbol, greeks)

\* one iteration of listen_greeks' loop on the event `greeks`:
\* greeks_dict[greeks.eventSymbol] = greeks
ListenGreeksStore(greeks_dict, greeks) ==
    DictSet(greeks_dict, greeks.eventSymbol, greeks)

\* if len(greeks_dict) == n_greeks: return greeks_dict
ListenGreeksDone(greeks_dict, n_greeks) == DictLen(greeks_dict) = n_greeks

(* --------------------------- delta selection -------------------------- *)

CallDiff(g, delta) == Abs(g.delta - delta)
PutDiff(g, delta) == Abs(g.delta + delta)

\* the initial value of `lowest`
InitialLowest == 100

\* the scan `for g in greeks: diff = ...; if diff < lowest: ...` from reading
\* i on, with the current selected / lowest; side is "C" or "P"
RECURSIVE ScanDelta(_, _, _, _, _, _)
ScanDelta(greeks, i, delta, side, selected, lowest) ==
    IF i > Len(greeks) THEN selected
    ELSE LET g == greeks[i]
             diff == IF side = "C" THEN CallDiff(g, delta) ELSE PutDiff(g, delta)
         IN IF diff < lowest
            THEN ScanDelta(greeks, i + 1, delta, side, g, diff)
            ELSE ScanDelta(greeks, i + 1, delta, side, selected, lowest)

\* lowest = 100; selected = None; for g in greeks: ...
SelectByDelta(greeks, delta, side) ==
    ScanDelta(greeks, 1, delta, side, NoneSym, InitialLowest)

(* ------------------------- chain and market --------------------------- *)

\* subchain.strikes of the chosen expiration, ascending by strike price; a
\* strike is identified with its strike_price
FullChain == [i \in 1..NStrikes |-> i]

\* NestedOptionChain.get_chain + choose_expiration + the subchain lookup:
\* the strikes of the chosen expiration (possibly an expiration without any)
Subchains == { FullChain, << >> }

StrikePrices(strikes_) == { strikes_[i] : i \in 1..Len(strikes_) }

\* the option contract (tradable instrument) of a strike: s.call / s.put
Option(type, s) == [option_type |-> type, strike_price |-> s]

\* what the feed reports for a symbol: the table of deltas and quotes
MarketDelta(sym) == IF sym.side = "C" THEN 100 - 20 * sym.k ELSE 10 - 20 * sym.k
MarketBid(sym) == IF sym.side = "C" THEN 200 - 20 * sym.k ELSE 20 * sym.k
MarketAsk(sym) == IF sym.side = "C" THEN MarketBid(sym) + 10 ELSE MarketBid(sym) + 5

\* the Greeks of a symbol: the deltas at strike 2 move between two values
MarketGreeks(sym) ==
    { GreeksEvent(sym, MarketDelta(sym)) }
    \cup (IF sym.k = 2 THEN { GreeksEvent(sym, MarketDelta(sym) - 5) } ELSE {})
\* the quotes of a symbol: the market moves between two quotes; the put at
\* strike 3 is also seen crossed (bid above ask)
MarketQuotes(sym) ==
    { QuoteEvent(sym, MarketBid(sym), MarketAsk(sym)),
      QuoteEvent(sym, MarketBid(sym) + 2, MarketAsk(sym) + 3) }
    \cup (IF sym.k = 3 /\ sym.side = "P"
          THEN { QuoteEvent(sym, MarketAsk(sym) + 4, MarketBid(sym)) } ELSE {})

\* quotes of the underlying (cents): mid 0.50, 2.00, 3.50 and 9.00
UnderlyingQuotes ==
    { QuoteEvent(Underlying, 40, 60), QuoteEvent(Underlying, 190, 210),
      QuoteEvent(Underlying, 340, 360), QuoteEvent(Underlying, 890, 910) }

(* ----------------------- command line arguments ----------------------- *)

StrikeArgs == { None, Some(0), Some(2), Some(9) }
DeltaArgs == { None, Some(0), Some(30), Some(-99), Some(100) }
WidthArgs == { None, Some(1), Some(-1) }
QuantityArgs == { -2, 0, 1 }
StrangleStrikeArgs == { None, Some(2), Some(3), Some(9) }
ChainStrikesArgs == { 1, 2 }

(* ---------------------------- the operator --------------------------- *)

\* what the operator may type at a yes / no prompt, as lists of characters
Answers ==
    { << >>, << "Y" >>, << "y", "e", "s" >>, << "n" >>, << "N", "o" >>, << "m" >>,
      << " ", "y" >> }

\* the characters as typed, capitals kept
AsTyped(typed) == typed

\* str.lower() on the characters typed
Lower(typed) ==
    [i \in 1..Len(typed) |->
        IF typed[i] = "Y" THEN "y" ELSE IF typed[i] = "N" THEN "n" ELSE typed[i]]

\* variant of get_confirmation that takes every non-empty answer as yes
get_confirmation_yes(a, default) == IF a = << >> THEN default ELSE "True"

\* one pass of get_confirmation's loop on the lowercased answer: "True" or
\* "False" when it returns, "again" when it prompts again
get_confirmation(a, default) ==
    IF a = << >> THEN default
    ELSE IF a[1] = "y" THEN "True"
    ELSE IF a[1] = "n" THEN "False"
    ELSE "again"

\* the characters int() takes as decimal digits, and their values
Digits ==
    ("0" :> 0) @@ ("1" :> 1) @@ ("2" :> 2) @@ ("3" :> 3) @@ ("4" :> 4) @@
    ("5" :> 5) @@ ("6" :> 6) @@ ("7" :> 7) @@ ("8" :> 8) @@ ("9" :> 9)

\* str.strip() on a list of characters
RECURSIVE Strip(_)
Strip(chars) ==
    IF chars = << >> THEN chars
    ELSE IF Head(chars) = " " THEN Strip(Tail(chars))
    ELSE IF chars[Len(chars)] = " " THEN Strip(SubSeq(chars, 1, Len(chars) - 1))
    ELSE chars

\* the value of a non-empty list of digits
RECURSIVE DigitsValue(_)
DigitsValue(ds) ==
    IF ds = << >> THEN 0
    ELSE 10 * DigitsValue(SubSeq(ds, 1, Len(ds) - 1)) + Digits[ds[Len(ds)]]

\* int(raw): Some(n), or None when int raises ValueError
ParseInt(chars) ==
    LET stripped == Strip(chars)
        signed == stripped # << >> /\ Head(stripped) \in { "-", "+" }
        body == IF signed THEN Tail(stripped) ELSE stripped
    IN IF body = << >> \/ \E i \in 1..Len(body) : body[i] \notin DOMAIN Digits
       THEN None
       ELSE Some(IF signed /\ Head(stripped) = "-" THEN 0 - DigitsValue(body)
                 ELSE DigitsValue(body))

(* ------------------------------ state --------------------------------- *)

VARIABLES
    cmd,        \* the command invoked: "call", "put", "strangle", "chain"
    strike,     \* call/put: the --strike option, later the selected strike
    call,       \* strangle: the --call option
    put,        \* strangle: the --put option
    delta,      \* the --delta option
    width,      \* the --width option
    quantity,   \* the quantity argument
    gtc,        \* the --gtc flag
    strikes,    \* chain: the --strikes option
    pc,         \* where the invocation is
    exc,        \* the exception that ended it ("" when none)
    error,      \* the message print_error showed ("" when none)
    sesh,       \* a RenewableSession was created
    streamer,   \* "none", "open" (inside async with), "closed"
    subGreeks,  \* symbols subscribed on the Greeks channel
    subQuotes,  \* symbols subscribed on the Quote channel
    dxfeeds,    \* the symbol list of the latest subscribe call
    feedAlive,  \* the feed still reports events
    subchain,   \* subchain.strikes
    greeks_dict,
    quote_dict,
    all_strikes,\* chain: the strikes shown
    selected,   \* call/put: the selected Greeks event
    selected_put,  \* strangle: the selected put symbol
    selected_call, \* strangle: the selected call symbol
    spread_strike,
    put_strike,
    call_strike,
    put_spread_strike,
    call_spread_strike,
    quote,      \* call/put: the quote get_event returned
    bid,
    ask,
    price_input,\* the line read at the limit price prompt
    price,
    legs,
    order,
    data,       \* the dry-run response
    answer,     \* what get_confirmation read last, lowercased
    placed,     \* number of live submissions (place_order with dry_run=False)
    requests,   \* the calls made to the feed and to the sink, in order
    feed,       \* harness: the events the feed delivers, in order
    pos,        \* harness: number of feed events consumed
    n_events,   \* harness: the expected count n_quotes / n_greeks
    skip,       \* harness: the skip symbol of listen_quotes
    greeks,     \* harness: the list of readings a scan iterates
    side,       \* harness: "C" (call side) or "P" (put side) selection
    expirations,    \* choose_expiration: the dates of chain.expirations
    tasty_monthly,  \* choose_expiration: what get_tasty_monthly() returns
    include_weeklies,
    exps,
    default,
    choice,
    raw,            \* choose_expiration: the line read last
    expiration      \* the date choose_expiration returned

args == << cmd, strike, call, put, delta, width, quantity, gtc, strikes >>
conn == << sesh, streamer, subGreeks, subQuotes, dxfeeds, feedAlive >>
dicts == << greeks_dict, quote_dict >>
picks == << all_strikes, selected, selected_put, selected_call, spread_strike, put_strike, call_strike,
            put_spread_strike, call_spread_strike >>
pricing == << quote, bid, ask, price_input, price >>
ordering == << legs, order, data, answer, placed, requests >>
chooser == << expirations, tasty_monthly, include_weeklies, exps, default,
             choice, raw, expiration >>
harness == << feed, pos, n_events, skip, greeks, side, chooser >>

vars == << args, pc, exc, error, conn, subchain, dicts, picks, pricing,
           ordering, harness >>

\* pc values at which an invocation has ended
Terminal == { "param_error", "raised", "rejected", "declined", "submitted",
              "chain_printed" }

(* ----------------------------- helpers -------------------------------- *)

Range(seq) == { seq[i] : i \in 1..Len(seq) }

Min(S) == CHOOSE x \in S : \A y \in S : x <= y

\* Python's seq[a:b] for 0-based bounds that may be negative or out of range
PyIndex(len, a) == IF a < 0 THEN (IF a + len < 0 THEN 0 ELSE a + len)
                   ELSE (IF a > len THEN len ELSE a)
PySlice(seq, a, b) == SubSeq(seq, PyIndex(Len(seq), a) + 1, PyIndex(Len(seq), b))

\* list.sort(key=lambda x: x.strike_price, reverse=...): a stable sort
SortsBefore(a, b, reverse) ==
    IF reverse THEN a.strike_price > b.strike_price
    ELSE a.strike_price < b.strike_price

InsertByStrike(sorted, x, reverse) ==
    LET later == { i \in 1..Len(sorted) : SortsBefore(x, sorted[i], reverse) }
        p == IF later = {} THEN Len(sorted) + 1 ELSE Min(later)
    IN SubSeq(sorted, 1, p - 1) \o << x >> \o SubSeq(sorted, p, Len(sorted))

RECURSIVE SortByStrike(_, _)
SortByStrike(seq, reverse) ==
    IF seq = << >> THEN << >>
    ELSE InsertByStrike(SortByStrike(SubSeq(seq, 1, Len(seq) - 1), reverse),
                        seq[Len(seq)], reverse)

\* a rounding of mid that first drops the half cent of bid + ask
RoundTruncated(sum2) == (sum2 - (sum2 % 2)) \div 2

\* round(mid, 2) for mid = sum2 / 2 cents: Decimal rounds half to even
RoundHalfEven(sum2) ==
    IF sum2 % 2 = 0 THEN sum2 \div 2
    ELSE LET lo == (sum2 - 1) \div 2
         IN IF lo % 2 = 0 THEN lo ELSE lo + 1

(* --------------------------- initial states --------------------------- *)

\* no quote read yet / no answer read yet
NoQuote == QuoteEvent(Unbound, 0, 0)
NoAnswer == << "-" >>
NoInput == "-"

NoOrder == [time_in_force |-> "", order_type |-> "", legs |-> << >>,
            price |-> 0, price_effect |-> ""]

\* a call to the feed (subscribe, listen_greeks, listen_quotes, get_event)
FeedCall(op) == [op |-> op, order |-> NoOrder]

\* the POST of the order to the dry-run url (test_order_handle_errors)
post_dry_run(order_) == [op |-> "dry_run", order |-> order_]

\* a live submission that sends the order one cent dearer
place_order_repriced(order_) ==
    [op |-> "place_order", order |-> [order_ EXCEPT !.price = @ + 1]]

\* acc.place_order(sesh, order, dry_run=False)
place_order(order_) == [op |-> "place_order", order |-> order_]

\* everything but the command line arguments
InitRest ==
    /\ exc = "" /\ error = ""
    /\ sesh = FALSE /\ streamer = "none"
    /\ subGreeks = {} /\ subQuotes = {} /\ dxfeeds = << >>
    /\ feedAlive = TRUE
    /\ subchain = << >>
    /\ greeks_dict = EmptyDict /\ quote_dict = EmptyDict
    /\ all_strikes = << >>
    /\ selected = Unbound /\ selected_put = Unbound /\ selected_call = Unbound
    /\ spread_strike = 0 /\ put_strike = 0 /\ call_strike = 0
    /\ put_spread_strike = 0 /\ call_spread_strike = 0
    /\ bid = 0 /\ ask = 0 /\ price_input = NoInput /\ price = None
    /\ quote = NoQuote
    /\ legs = << >> /\ order = NoOrder /\ data = "none" /\ placed = 0
    /\ answer = NoAnswer
    /\ requests = << >>

\* a date: month, day of the month and date.weekday() (Monday is 0)
Date(m, d, wd) == [month |-> m, day |-> d, weekday |-> wd]
NoDate == Date(0, 0, 0)
NoRaw == << "-" >>

\* choose_expiration is not running
NoChooser ==
    /\ expirations = << >> /\ tasty_monthly = NoDate /\ include_weeklies = FALSE
    /\ exps = << >> /\ default = 0 /\ choice = 0 /\ raw = NoRaw
    /\ expiration = NoDate

NoHarness ==
    /\ feed = << >> /\ pos = 0 /\ n_events = 0 /\ skip = NoneSym
    /\ greeks = << >> /\ side = "C"
    /\ NoChooser

InitCallPut ==
    /\ cmd \in { "call", "put" }
    /\ strike \in StrikeArgs /\ delta \in DeltaArgs /\ width \in WidthArgs
    /\ quantity \in QuantityArgs /\ gtc \in BOOLEAN
    /\ call = None /\ put = None /\ strikes = 0

InitStrangle ==
    /\ cmd = "strangle"
    /\ call \in StrangleStrikeArgs /\ put \in StrangleStrikeArgs
    /\ delta \in DeltaArgs /\ width \in WidthArgs
    /\ quantity \in QuantityArgs /\ gtc \in BOOLEAN
    /\ strike = None /\ strikes = 0

InitChain ==
    /\ cmd = "chain"
    /\ strikes \in ChainStrikesArgs
    /\ strike = None /\ call = None /\ put = None /\ delta = None
    /\ width = None /\ quantity = 0 /\ gtc = FALSE

Init ==
    /\ pc = "start"
    /\ InitRest /\ NoHarness
    /\ (InitCallPut \/ InitStrangle \/ InitChain)

(* ------------------- call, put, strangle: validation ------------------ *)

BothGiven == "Must specify either delta or strike, but not both."
NeitherGiven == "Please specify either delta or strike for the option."
NeitherGivenStrangle == "Please specify either delta, or strikes for both options."
DeltaTooHigh == "Delta value is too high, -99 <= delta <= 99"

\* the if / elif chain that opens call and put; "" when none applies
CallPutParamError ==
    IF strike # None /\ delta # None THEN BothGiven
    ELSE IF ~Truthy(strike) /\ ~Truthy(delta) THEN NeitherGiven
    ELSE IF delta # None /\ Abs(Val(delta)) > 99 THEN DeltaTooHigh
    ELSE ""

\* the if / elif chain that opens strangle
StrangleParamError ==
    IF (call # None \/ put # None) /\ delta # None THEN BothGiven
    ELSE IF delta # None /\ (call # None \/ put # None) THEN NeitherGivenStrangle
    ELSE IF delta # None /\ Abs(Val(delta)) > 99 THEN DeltaTooHigh
    ELSE ""

ParamError == IF cmd = "strangle" THEN StrangleParamError ELSE CallPutParamError

\* the parameter checks: print_error and return, or go on
Validate ==
    /\ pc = "start" /\ cmd \in { "call", "put", "strangle" }
    /\ IF ParamError # ""
       THEN pc' = "param_error" /\ error' = ParamError
       ELSE pc' = "validated" /\ error' = error
    /\ UNCHANGED << args, exc, conn, subchain, dicts, picks, pricing,
                    ordering, harness >>

\* sesh = RenewableSession(); the chain, the expiration and its subchain;
\* async with DXLinkStreamer(sesh) as streamer
Setup ==
    /\ pc = "validated"
    /\ sesh' = TRUE
    /\ subchain' \in Subchains
    /\ streamer' = "open"
    /\ pc' = "streaming"
    /\ UNCHANGED << args, exc, error, subGreeks, subQuotes, dxfeeds, feedAlive,
                    dicts, picks, pricing, ordering, harness >>

(* ----------------------- strike resolution ---------------------------- *)

\* the condition of `if not strike:` (call, put) / `if delta is not None:`
UsesDelta == IF cmd = "strangle" THEN delta # None ELSE ~Truthy(strike)

CallDxfeeds(strikes_) ==
    [i \in 1..Len(strikes_) |-> call_streamer_symbol(strikes_[i])]
PutDxfeeds(strikes_) ==
    [i \in 1..Len(strikes_) |-> put_streamer_symbol(strikes_[i])]

\* the symbols subscribed for the Greeks of the delta match
GreeksDxfeeds ==
    IF cmd = "call" THEN CallDxfeeds(subchain)
    ELSE IF cmd = "put" THEN PutDxfeeds(subchain)
    ELSE PutDxfeeds(subchain) \o CallDxfeeds(subchain)

\* await streamer.subscribe(EventType.GREEKS, dxfeeds), entering listen_greeks
SubscribeGreeks ==
    /\ pc = "streaming" /\ UsesDelta
    /\ dxfeeds' = GreeksDxfeeds
    /\ subGreeks' = subGreeks \cup Range(GreeksDxfeeds)
    /\ greeks_dict' = EmptyDict
    /\ pc' = "listen_greeks"
    /\ requests' = requests \o << FeedCall("subscribe_greeks"), FeedCall("listen_greeks") >>
    /\ UNCHANGED << args, exc, error, sesh, streamer, subQuotes, feedAlive,
                    subchain, quote_dict, picks, pricing, legs, order, data,
                    answer, placed, harness >>

IsStrikeOf(o, strikes_) == o # None /\ Val(o) \in StrikePrices(strikes_)

\* the strikes given on the command line: nothing to do in call and put,
\* the two next(...) lookups of strangle's else branch
ExplicitStrikes ==
    /\ pc = "streaming" /\ ~UsesDelta
    /\ IF cmd # "strangle"
       THEN /\ pc' = "strikes_resolved"
            /\ UNCHANGED << exc, streamer, put_strike, call_strike >>
       ELSE IF ~IsStrikeOf(put, subchain)
       THEN /\ pc' = "raised" /\ exc' = "StopIteration" /\ streamer' = "closed"
            /\ UNCHANGED << put_strike, call_strike >>
       ELSE IF ~IsStrikeOf(call, subchain)
       THEN /\ pc' = "raised" /\ exc' = "StopIteration" /\ streamer' = "closed"
            /\ put_strike' = Val(put) /\ call_strike' = call_strike
       ELSE /\ pc' = "strikes_resolved"
            /\ put_strike' = Val(put) /\ call_strike' = Val(call)
            /\ UNCHANGED << exc, streamer >>
    /\ UNCHANGED << args, error, sesh, subGreeks, subQuotes, dxfeeds, feedAlive,
                    subchain, dicts, all_strikes, selected, selected_put,
                    selected_call, spread_strike, put_spread_strike,
                    call_spread_strike, pricing, ordering, harness >>

\* the dict restricted to the events whose symbol is in the list
ValuesIn(d, symbols) ==
    [x \in (DOMAIN d) \cap Range(symbols) |-> d[x]]

\* call / put after listen_greeks returned: the scan over
\* list(greeks_dict.values()) and the strike of the selected event
CallPutSelect(d) ==
    \E values \in DictOrders(d) :
        LET sel == SelectByDelta(values, Val(delta),
                                 IF cmd = "call" THEN "C" ELSE "P")
        IN /\ selected' = sel
           /\ IF sel = NoneSym
              THEN /\ pc' = "raised" /\ exc' = "AttributeError"
                   /\ streamer' = "closed" /\ strike' = strike
              ELSE /\ pc' = "strikes_resolved" /\ strike' = Some(sel.eventSymbol.k)
                   /\ UNCHANGED << exc, streamer >>
           /\ UNCHANGED << selected_put, selected_call, put_strike, call_strike,
                           quote_dict, subQuotes >>

\* the symbol a scan of strangle ends with: g.eventSymbol, or None
SelectedSymbol(sel) == IF sel = NoneSym THEN NoneSym ELSE sel.eventSymbol

\* strangle after listen_greeks returned: put_greeks and call_greeks, the two
\* scans, and the two next(...) lookups of the selected symbols
StrangleSelect(d) ==
    LET put_greeks == DictOrders(ValuesIn(d, PutDxfeeds(subchain)))
        call_greeks == DictOrders(ValuesIn(d, CallDxfeeds(subchain)))
        puts == { SelectedSymbol(SelectByDelta(g, Val(delta), "P")) : g \in put_greeks }
        calls == { SelectedSymbol(SelectByDelta(g, Val(delta), "C")) : g \in call_greeks }
    IN \E sp \in puts, sc \in calls :
        /\ selected_put' = sp /\ selected_call' = sc
        /\ IF sp = NoneSym
           THEN /\ pc' = "raised" /\ exc' = "StopIteration" /\ streamer' = "closed"
                /\ UNCHANGED << put_strike, call_strike >>
           ELSE IF sc = NoneSym
           THEN /\ pc' = "raised" /\ exc' = "StopIteration" /\ streamer' = "closed"
                /\ put_strike' = sp.k /\ call_strike' = call_strike
           ELSE /\ pc' = "strikes_resolved"
                /\ put_strike' = sp.k /\ call_strike' = sc.k
                /\ UNCHANGED << exc, streamer >>
        /\ UNCHANGED << selected, strike, quote_dict, subQuotes >>

\* chain after listen_greeks returned: on to listen_quotes
ChainAfterGreeks ==
    /\ pc' = "listen_quotes" /\ quote_dict' = EmptyDict
    /\ requests' = Append(requests, FeedCall("listen_quotes"))
    /\ UNCHANGED << exc, streamer, strike, selected, selected_put, selected_call,
                    put_strike, call_strike, subQuotes >>

\* one event of the Greeks channel reaches listen_greeks; when that completes
\* the mapping, the code up to the next await runs
ListenGreeks ==
    /\ pc = "listen_greeks" /\ feedAlive
    /\ \E sym \in subGreeks : \E event \in MarketGreeks(sym) :
        LET d == ListenGreeksStore(greeks_dict, event)
        IN /\ greeks_dict' = d
           /\ IF ~ListenGreeksDone(d, Len(dxfeeds))
              THEN UNCHANGED << pc, exc, streamer, strike, selected, selected_put,
                                selected_call, put_strike, call_strike,
                                quote_dict, subQuotes, requests >>
              ELSE IF cmd = "chain" THEN ChainAfterGreeks
              ELSE IF cmd = "strangle" THEN StrangleSelect(d) /\ requests' = requests
              ELSE CallPutSelect(d) /\ requests' = requests
    /\ UNCHANGED << cmd, call, put, delta, width, quantity, gtc, strikes, error,
                    sesh, subGreeks, dxfeeds, feedAlive, subchain, all_strikes,
                    spread_strike, put_spread_strike, call_spread_strike,
                    pricing, legs, order, data, answer, placed, harness >>

(* ------------------------ quote subscription -------------------------- *)

\* the strike of the far leg of a call / put spread: strike + width, strike - width
FarStrike == IF cmd = "call" THEN Val(strike) + Val(width)
             ELSE Val(strike) - Val(width)

SideSymbol(s) == IF cmd = "call" THEN call_streamer_symbol(s)
                 ELSE put_streamer_symbol(s)

\* variant of Raise that leaves the streamer open
RaiseUnscoped(e) == pc' = "raised" /\ exc' = e /\ streamer' = streamer

\* an exception leaves the `async with DXLinkStreamer(sesh)` block
Raise(e) == pc' = "raised" /\ exc' = e /\ streamer' = "closed"

\* call / put: `if width:` the spread strike lookup and the subscription of
\* the two quotes, else the subscription of the one quote
SubscribeQuotesCallPut ==
    /\ pc = "strikes_resolved" /\ cmd \in { "call", "put" }
    /\ IF Truthy(width)
       THEN IF FarStrike \notin StrikePrices(subchain)
            THEN /\ Raise("StopIteration")
                 /\ UNCHANGED << spread_strike, dxfeeds, subQuotes, quote_dict, requests >>
            ELSE IF selected = Unbound
            THEN /\ Raise("UnboundLocalError")
                 /\ spread_strike' = FarStrike
                 /\ UNCHANGED << dxfeeds, subQuotes, quote_dict, requests >>
            ELSE /\ spread_strike' = FarStrike
                 /\ dxfeeds' = << selected.eventSymbol, SideSymbol(FarStrike) >>
                 /\ subQuotes' = subQuotes \cup { selected.eventSymbol, SideSymbol(FarStrike) }
                 /\ quote_dict' = EmptyDict
                 /\ requests' = requests \o << FeedCall("subscribe_quotes"),
                                         FeedCall("listen_quotes") >>
                 /\ pc' = "listen_quotes"
                 /\ UNCHANGED << exc, streamer >>
       ELSE IF selected = Unbound
            THEN /\ Raise("UnboundLocalError")
                 /\ UNCHANGED << spread_strike, dxfeeds, subQuotes, quote_dict, requests >>
            ELSE /\ dxfeeds' = << selected.eventSymbol >>
                 /\ subQuotes' = subQuotes \cup { selected.eventSymbol }
                 /\ requests' = requests \o << FeedCall("subscribe_quotes"),
                                         FeedCall("get_event") >>
                 /\ pc' = "get_event"
                 /\ UNCHANGED << exc, streamer, spread_strike, quote_dict >>
    /\ UNCHANGED << args, error, sesh, subGreeks, feedAlive, subchain, greeks_dict,
                    all_strikes, selected, selected_put, selected_call, put_strike,
                    call_strike, put_spread_strike, call_spread_strike, pricing,
                    legs, order, data, answer, placed, harness >>

\* strangle: `if width:` the two spread strike lookups and the subscription
\* of the four quotes, else the subscription of the two quotes
SubscribeQuotesStrangle ==
    /\ pc = "strikes_resolved" /\ cmd = "strangle"
    /\ IF Truthy(width)
       THEN IF put_strike - Val(width) \notin StrikePrices(subchain)
            THEN /\ Raise("StopIteration")
                 /\ UNCHANGED << put_spread_strike, call_spread_strike, dxfeeds,
                                 subQuotes, quote_dict, requests >>
            ELSE IF call_strike + Val(width) \notin StrikePrices(subchain)
            THEN /\ Raise("StopIteration")
                 /\ put_spread_strike' = put_strike - Val(width)
                 /\ UNCHANGED << call_spread_strike, dxfeeds, subQuotes, quote_dict,
                                 requests >>
            ELSE /\ put_spread_strike' = put_strike - Val(width)
                 /\ call_spread_strike' = call_strike + Val(width)
                 /\ dxfeeds' = << call_streamer_symbol(call_strike),
                                  put_streamer_symbol(put_strike),
                                  put_streamer_symbol(put_strike - Val(width)),
                                  call_streamer_symbol(call_strike + Val(width)) >>
                 /\ subQuotes' = subQuotes \cup Range(dxfeeds')
                 /\ quote_dict' = EmptyDict
                 /\ requests' = requests \o << FeedCall("subscribe_quotes"),
                                         FeedCall("listen_quotes") >>
                 /\ pc' = "listen_quotes"
                 /\ UNCHANGED << exc, streamer >>
       ELSE /\ dxfeeds' = << put_streamer_symbol(put_strike),
                             call_streamer_symbol(call_strike) >>
            /\ subQuotes' = subQuotes \cup Range(dxfeeds')
            /\ quote_dict' = EmptyDict
            /\ requests' = requests \o << FeedCall("subscribe_quotes"),
                                    FeedCall("listen_quotes") >>
            /\ pc' = "listen_quotes"
            /\ UNCHANGED << exc, streamer, put_spread_strike, call_spread_strike >>
    /\ UNCHANGED << args, error, sesh, subGreeks, feedAlive, subchain, greeks_dict,
                    all_strikes, selected, selected_put, selected_call, spread_strike,
                    put_strike, call_strike, pricing, legs, order, data, answer,
                    placed, harness >>

(* ------------------------- quotes and pricing ------------------------- *)

\* the quotes the feed may report for a subscribed symbol
FeedQuotes(sym) == IF sym = Underlying THEN UnderlyingQuotes ELSE MarketQuotes(sym)

\* the first argument of the command's listen_quotes call
NQuotes == IF cmd = "chain" THEN Len(dxfeeds)
           ELSE IF cmd = "strangle" /\ Truthy(width) THEN 4
           ELSE 2

\* the skip argument of the command's listen_quotes call
QuoteSkip == IF cmd = "chain" THEN Underlying ELSE NoneSym

\* the symbols whose entries the command reads from the returned quote_dict
QuoteLookups ==
    IF cmd = "chain"
    THEN Range(PutDxfeeds(all_strikes)) \cup Range(CallDxfeeds(all_strikes))
    ELSE IF cmd = "strangle"
    THEN IF Truthy(width)
         THEN { call_streamer_symbol(call_strike), put_streamer_symbol(put_strike),
                put_streamer_symbol(put_spread_strike),
                call_streamer_symbol(call_spread_strike) }
         ELSE {}
    ELSE { selected.eventSymbol, SideSymbol(spread_strike) }

\* the combo bid computed from the returned quote_dict q
ComboBid(q) ==
    IF cmd = "strangle"
    THEN IF Truthy(width)
         THEN q[call_streamer_symbol(call_strike)].bidPrice
              + q[put_streamer_symbol(put_strike)].bidPrice
              - q[put_streamer_symbol(put_spread_strike)].askPrice
              - q[call_streamer_symbol(call_spread_strike)].askPrice
         ELSE LET syms == CHOOSE o \in SetOrders(DOMAIN q) : TRUE
                  Sum[i \in 0..Len(syms)] ==
                      IF i = 0 THEN 0 ELSE Sum[i - 1] + q[syms[i]].bidPrice
              IN Sum[Len(syms)]
    ELSE q[selected.eventSymbol].bidPrice - q[SideSymbol(spread_strike)].askPrice

\* the ask of the reversed combo
ComboAskReversed(q) == 0 - ComboBid(q)

\* the combo ask computed from the returned quote_dict q
ComboAsk(q) ==
    IF cmd = "strangle"
    THEN IF Truthy(width)
         THEN q[call_streamer_symbol(call_strike)].askPrice
              + q[put_streamer_symbol(put_strike)].askPrice
              - q[put_streamer_symbol(put_spread_strike)].bidPrice
              - q[call_streamer_symbol(call_spread_strike)].bidPrice
         ELSE LET syms == CHOOSE o \in SetOrders(DOMAIN q) : TRUE
                  Sum[i \in 0..Len(syms)] ==
                      IF i = 0 THEN 0 ELSE Sum[i - 1] + q[syms[i]].askPrice
              IN Sum[Len(syms)]
    ELSE q[selected.eventSymbol].askPrice - q[SideSymbol(spread_strike)].bidPrice

\* call, put, strangle after listen_quotes returned: bid, ask (and mid)
PriceCombo(q) ==
    IF ~(QuoteLookups \subseteq DOMAIN q)
    THEN Raise("KeyError") /\ UNCHANGED << bid, ask >>
    ELSE /\ bid' = ComboBid(q) /\ ask' = ComboAsk(q)
         /\ pc' = "priced"
         /\ UNCHANGED << exc, streamer >>

\* chain after listen_quotes returned: the rows of the table, read from
\* quote_dict and greeks_dict
ChainTable(q) ==
    /\ IF ~(QuoteLookups \subseteq DOMAIN q /\ QuoteLookups \subseteq DOMAIN greeks_dict)
       THEN Raise("KeyError")
       ELSE pc' = "chain_printed" /\ streamer' = "closed" /\ exc' = exc
    /\ UNCHANGED << bid, ask >>

\* one event of the Quote channel reaches listen_quotes; when that completes
\* the mapping, the code up to the next prompt runs
ListenQuotes ==
    /\ pc = "listen_quotes" /\ feedAlive
    /\ \E sym \in subQuotes : \E event \in FeedQuotes(sym) :
        LET q == ListenQuotesStore(quote_dict, event, QuoteSkip)
        IN /\ quote_dict' = q
           /\ IF ~ListenQuotesDone(q, NQuotes)
              THEN UNCHANGED << pc, exc, streamer, bid, ask >>
              ELSE IF cmd = "chain" THEN ChainTable(q)
              ELSE PriceCombo(q)
    /\ UNCHANGED << args, error, sesh, subGreeks, subQuotes, dxfeeds, feedAlive,
                    subchain, greeks_dict, picks, quote, price_input, price,
                    ordering, harness >>

\* call / put without width: quote = await streamer.get_event(EventType.QUOTE)
GetEvent ==
    /\ pc = "get_event" /\ feedAlive
    /\ \E sym \in subQuotes : \E event \in FeedQuotes(sym) :
        /\ quote' = event
        /\ bid' = event.bidPrice /\ ask' = event.askPrice
    /\ pc' = "priced"
    /\ UNCHANGED << args, exc, error, conn, subchain, dicts, picks,
                    price_input, price, ordering, harness >>

\* what the operator may type at the limit price prompt, with the value of
\* Decimal(text) in cents (None where Decimal raises InvalidOperation)
PriceEntries ==
    { [text |-> "", decimal |-> None],
      [text |-> "1.25", decimal |-> Some(125)],
      [text |-> "-0.50", decimal |-> Some(-50)],
      [text |-> "abc", decimal |-> None] }

\* price = input(...); if not price: price = round(mid, 2); price = Decimal(price)
EnterPrice ==
    /\ pc = "priced"
    /\ \E typed \in PriceEntries :
        /\ price_input' = typed.text
        /\ IF typed.text = ""
           THEN /\ price' = Some(RoundHalfEven(bid + ask))
                /\ pc' = "price_set" /\ UNCHANGED << exc, streamer >>
           ELSE IF typed.decimal = None
           THEN Raise("InvalidOperation") /\ price' = price
           ELSE /\ price' = typed.decimal
                /\ pc' = "price_set" /\ UNCHANGED << exc, streamer >>
    /\ UNCHANGED << args, error, sesh, subGreeks, subQuotes, dxfeeds, feedAlive,
                    subchain, dicts, picks, quote, bid, ask, ordering, harness >>

(* --------------------------- legs and order --------------------------- *)

\* Option.build_leg(quantity, action)
Leg(option, qty, action) == [symbol |-> option, quantity |-> qty, action |-> action]

\* variant of SellIfShort that ignores the sign of quantity
BuyToOpenAlways == "BUY_TO_OPEN"

\* OrderAction.SELL_TO_OPEN if quantity < 0 else OrderAction.BUY_TO_OPEN
SellIfShort == IF quantity < 0 THEN "SELL_TO_OPEN" ELSE "BUY_TO_OPEN"
\* OrderAction.BUY_TO_OPEN if quantity < 0 else OrderAction.SELL_TO_OPEN
BuyIfShort == IF quantity < 0 THEN "BUY_TO_OPEN" ELSE "SELL_TO_OPEN"

\* the legs call builds from the options the resolver returned (res)
CallLegs(res) ==
    IF Truthy(width)
    THEN LET sorted == SortByStrike(res, FALSE)
         IN << Leg(sorted[1], Abs(quantity), SellIfShort),
               Leg(sorted[2], Abs(quantity), BuyIfShort) >>
    ELSE << Leg(res[1], Abs(quantity), SellIfShort) >>

\* the legs put builds from the options the resolver returned (res)
PutLegs(res) ==
    IF Truthy(width)
    THEN LET sorted == SortByStrike(res, TRUE)
         IN << Leg(sorted[1], Abs(quantity), SellIfShort),
               Leg(sorted[2], Abs(quantity), BuyIfShort) >>
    ELSE << Leg(res[1], Abs(quantity), SellIfShort) >>

\* the legs strangle builds from the options the resolver returned
StrangleLegs(res) ==
    LET options == SortByStrike(res, FALSE)
    IN IF Truthy(width)
       THEN << Leg(options[1], Abs(quantity), BuyIfShort),
               Leg(options[2], Abs(quantity), SellIfShort),
               Leg(options[3], Abs(quantity), SellIfShort),
               Leg(options[4], Abs(quantity), BuyIfShort) >>
       ELSE << Leg(options[1], Abs(quantity), SellIfShort),
               Leg(options[2], Abs(quantity), SellIfShort) >>

\* the contracts the command asks the resolver for
Contracts ==
    IF cmd = "call"
    THEN { Option("C", Val(strike)) }
         \cup (IF Truthy(width) THEN { Option("C", spread_strike) } ELSE {})
    ELSE IF cmd = "put"
    THEN { Option("P", Val(strike)) }
         \cup (IF Truthy(width) THEN { Option("P", spread_strike) } ELSE {})
    ELSE { Option("P", put_strike), Option("C", call_strike) }
         \cup (IF Truthy(width)
               THEN { Option("P", put_spread_strike), Option("C", call_spread_strike) }
               ELSE {})

\* an order whose price effect follows the sign of the limit price
NewOrderSignedPrice(legs_) ==
    [time_in_force |-> IF gtc THEN "GTC" ELSE "DAY",
     order_type |-> "LIMIT",
     legs |-> legs_,
     price |-> Val(price),
     price_effect |-> IF Val(price) < 0 THEN "DEBIT" ELSE "CREDIT"]

\* NewOrder(time_in_force=..., order_type=LIMIT, legs=..., price=..., price_effect=...)
NewOrder(legs_) ==
    [time_in_force |-> IF gtc THEN "GTC" ELSE "DAY",
     order_type |-> "LIMIT",
     legs |-> legs_,
     price |-> Val(price),
     price_effect |-> IF quantity < 0 THEN "CREDIT" ELSE "DEBIT"]

\* the contract lookup (Option.get_option / get_options, whose answer comes in
\* an order of the resolver's choosing), the legs and the order
BuildLegs ==
    /\ pc = "price_set"
    /\ \E res \in SetOrders(Contracts) :
        /\ legs' = (IF cmd = "call" THEN CallLegs(res)
                    ELSE IF cmd = "put" THEN PutLegs(res)
                    ELSE StrangleLegs(res))
        /\ order' = NewOrder(legs')
    /\ pc' = "legs_built"
    /\ UNCHANGED << args, exc, error, conn, subchain, dicts, picks, pricing,
                    data, answer, placed, requests, harness >>

\* the message test_order_handle_errors prints for a rejected dry run
DryRunRejected == "dry-run rejected"

\* a validation that posts the order again when the sink rejected it
DryRunRetried ==
    /\ pc = "legs_built" /\ Len(requests) < 8
    /\ \E response \in { "rejected", "accepted" } :
        /\ data' = response
        /\ requests' = Append(requests, post_dry_run(order))
        /\ IF response = "rejected"
           THEN UNCHANGED << pc, error, streamer >>
           ELSE pc' = "reviewed" /\ error' = error /\ streamer' = streamer
    /\ UNCHANGED << args, exc, sesh, subGreeks, subQuotes, dxfeeds, feedAlive,
                    subchain, dicts, picks, pricing, legs, order, answer, placed,
                    harness >>

\* acc = sesh.get_account(); data = test_order_handle_errors(acc, sesh, order):
\* the sink rejects (errors printed, return) or accepts (the review is shown)
DryRun ==
    /\ pc = "legs_built"
    /\ \E response \in { "rejected", "accepted" } :
        /\ data' = response
        /\ requests' = Append(requests, post_dry_run(order))
        /\ IF response = "rejected"
           THEN pc' = "rejected" /\ error' = DryRunRejected /\ streamer' = "closed"
           ELSE pc' = "reviewed" /\ error' = error /\ streamer' = streamer
    /\ UNCHANGED << args, exc, sesh, subGreeks, subQuotes, dxfeeds, feedAlive,
                    subchain, dicts, picks, pricing, legs, order, answer, placed,
                    harness >>

\* if get_confirmation('Send order? Y/n '): acc.place_order(sesh, order, dry_run=False)
Confirm ==
    /\ pc = "reviewed"
    /\ \E typed \in Answers :
        LET a == Lower(typed)
            r == get_confirmation(a, "True")
        IN /\ answer' = a
           /\ IF r = "again"
              THEN UNCHANGED << pc, placed, requests, streamer >>
              ELSE IF r = "True"
              THEN /\ pc' = "submitted" /\ placed' = placed + 1
                   /\ requests' = Append(requests, place_order(order))
                   /\ streamer' = "closed"
              ELSE /\ pc' = "declined" /\ placed' = placed /\ requests' = requests
                   /\ streamer' = "closed"
    /\ UNCHANGED << args, exc, error, sesh, subGreeks, subQuotes, dxfeeds,
                    feedAlive, subchain, dicts, picks, pricing, legs, order,
                    data, harness >>

(* ------------------------------- chain -------------------------------- *)

\* sesh = RenewableSession(); async with DXLinkStreamer(sesh) as streamer;
\* await streamer.subscribe(EventType.QUOTE, [symbol])
ChainStart ==
    /\ pc = "start" /\ cmd = "chain"
    /\ sesh' = TRUE /\ streamer' = "open"
    /\ dxfeeds' = << Underlying >>
    /\ subQuotes' = subQuotes \cup { Underlying }
    /\ requests' = requests \o << FeedCall("subscribe_quotes"), FeedCall("get_event") >>
    /\ pc' = "get_underlying"
    /\ UNCHANGED << args, exc, error, subGreeks, feedAlive, subchain, dicts,
                    picks, pricing, legs, order, data, answer, placed, harness >>

\* the number of leading strikes below the pivot (where the while loop stops);
\* the pivot is (bidPrice + askPrice) / 2 in cents, a strike price is in units
MidIndex(strikes_, sum2) ==
    Cardinality({ i \in 1..Len(strikes_) : 200 * strikes_[i] < sum2 })

\* the quote of the underlying arrives; the chain, the expiration, the strike
\* window and the two subscriptions
ChainWindow ==
    /\ pc = "get_underlying" /\ feedAlive
    /\ \E event \in UnderlyingQuotes : \E sc \in Subchains :
        LET sum2 == event.bidPrice + event.askPrice
            mid_index == MidIndex(sc, sum2)
            window == IF strikes * 2 < Len(sc)
                      THEN PySlice(sc, mid_index - strikes, mid_index + strikes)
                      ELSE sc
            feeds == CallDxfeeds(window) \o PutDxfeeds(window)
        IN /\ subchain' = sc
           /\ IF strikes * 2 < Len(sc) /\ mid_index = Len(sc)
              THEN /\ Raise("IndexError")
                   /\ UNCHANGED << all_strikes, dxfeeds, subQuotes, subGreeks,
                                   greeks_dict, requests >>
              ELSE /\ all_strikes' = window
                   /\ dxfeeds' = feeds
                   /\ subQuotes' = subQuotes \cup Range(feeds)
                   /\ subGreeks' = subGreeks \cup Range(feeds)
                   /\ greeks_dict' = EmptyDict
                   /\ requests' = requests \o << FeedCall("subscribe_quotes"),
                                           FeedCall("subscribe_greeks"),
                                           FeedCall("listen_greeks") >>
                   /\ pc' = "listen_greeks"
                   /\ UNCHANGED << exc, streamer >>
    /\ UNCHANGED << args, error, sesh, feedAlive, quote_dict, selected,
                    selected_put, selected_call, spread_strike, put_strike,
                    call_strike, put_spread_strike, call_spread_strike, pricing,
                    legs, order, data, answer, placed, harness >>

(* ------------------------------ the feed ------------------------------ *)

Waiting == pc \in { "listen_greeks", "listen_quotes", "get_event", "get_underlying" }

\* the feed stops reporting while the command waits for an event
FeedDies ==
    /\ Waiting /\ feedAlive
    /\ feedAlive' = FALSE
    /\ UNCHANGED << args, pc, exc, error, sesh, streamer, subGreeks, subQuotes,
                    dxfeeds, subchain, dicts, picks, pricing, ordering, harness >>

(* -------------------------- the specification ------------------------- *)

Next ==
    \/ Validate
    \/ Setup
    \/ SubscribeGreeks
    \/ ExplicitStrikes
    \/ ListenGreeks
    \/ SubscribeQuotesCallPut
    \/ SubscribeQuotesStrangle
    \/ ListenQuotes
    \/ GetEvent
    \/ EnterPrice
    \/ BuildLegs
    \/ DryRun
    \/ Confirm
    \/ ChainStart
    \/ ChainWindow
    \/ FeedDies

Spec == Init /\ [][Next]_vars

(* ------------------- the aggregators on given feeds -------------------- *)

\* The aggregators are functions of (n, skip, the events the feed delivers in
\* order).  SpecAgg draws those inputs and runs the loop one event at a time.

SymX == Sym("C", 1)
SymY == Sym("C", 2)

AggQuoteEvents ==
    { QuoteEvent(SymX, 100, 110), QuoteEvent(SymX, 120, 130),
      QuoteEvent(SymY, 200, 210), QuoteEvent(SymY, 205, 215),
      QuoteEvent(Underlying, 500, 501) }

AggGreeksEvents ==
    { GreeksEvent(SymX, 30), GreeksEvent(SymX, 32),
      GreeksEvent(SymY, 25), GreeksEvent(SymY, 27),
      GreeksEvent(Underlying, 100) }

SeqsUpTo(E, n) == UNION { [1..k -> E] : k \in 0..n }

InitNoCommand ==
    /\ strike = None /\ call = None /\ put = None /\ delta = None
    /\ width = None /\ quantity = 0 /\ gtc = FALSE /\ strikes = 0

InitAgg ==
    /\ InitRest /\ InitNoCommand /\ NoChooser
    /\ greeks = << >> /\ side = "C"
    /\ pos = 0
    /\ n_events \in 0..MaxN
    /\ \/ /\ cmd = "listen_quotes" /\ pc = "listen_quotes"
          /\ feed \in SeqsUpTo(AggQuoteEvents, MaxFeed)
          /\ skip \in { NoneSym, Underlying }
       \/ /\ cmd = "listen_greeks" /\ pc = "listen_greeks"
          /\ feed \in SeqsUpTo(AggGreeksEvents, MaxFeed)
          /\ skip = NoneSym

\* listen_quotes(n_events, streamer, skip): the loop body on the next event
AggListenQuotes ==
    /\ cmd = "listen_quotes" /\ pc = "listen_quotes"
    /\ pos < Len(feed)
    /\ LET q == ListenQuotesStore(quote_dict, feed[pos + 1], skip)
       IN /\ quote_dict' = q
          /\ pc' = IF ListenQuotesDone(q, n_events) THEN "returned" ELSE pc
    /\ pos' = pos + 1
    /\ UNCHANGED << args, exc, error, conn, subchain, greeks_dict, picks,
                    pricing, ordering, feed, n_events, skip, greeks, side,
                    chooser >>

\* listen_greeks(n_events, streamer): the loop body on the next event
AggListenGreeks ==
    /\ cmd = "listen_greeks" /\ pc = "listen_greeks"
    /\ pos < Len(feed)
    /\ LET g == ListenGreeksStore(greeks_dict, feed[pos + 1])
       IN /\ greeks_dict' = g
          /\ pc' = IF ListenGreeksDone(g, n_events) THEN "returned" ELSE pc
    /\ pos' = pos + 1
    /\ UNCHANGED << args, exc, error, conn, subchain, quote_dict, picks,
                    pricing, ordering, feed, n_events, skip, greeks, side,
                    chooser >>

NextAgg == AggListenQuotes \/ AggListenGreeks

SpecAgg == InitAgg /\ [][NextAgg]_vars

(* --------------------- the scan on given readings --------------------- *)

\* SpecSel draws a list of readings (in iteration order), a target delta and
\* a side, and runs the scan.

\* magnitudes of the deltas of the readings, in hundredths
DeltaSizes == { 25, 30, 32, 100 }
TargetDeltas == { -99, 0, 30 }

Readings(side_) ==
    { [i \in 1..Len(ds) |->
          GreeksEvent(Sym(side_, i), IF side_ = "C" THEN ds[i] ELSE -ds[i])]
      : ds \in SeqsUpTo(DeltaSizes, MaxReadings) }

InitSel ==
    /\ InitRest
    /\ strike = None /\ call = None /\ put = None
    /\ width = None /\ quantity = 0 /\ gtc = FALSE /\ strikes = 0
    /\ cmd = "select" /\ pc = "select" /\ NoChooser
    /\ feed = << >> /\ pos = 0 /\ n_events = 0 /\ skip = NoneSym
    /\ side \in { "C", "P" }
    /\ greeks \in Readings(side)
    /\ \E t \in TargetDeltas : delta = Some(t)

\* the call-side scan (diff = abs(g.delta * 100 - delta))
SelectCall ==
    /\ cmd = "select" /\ pc = "select" /\ side = "C"
    /\ selected' = SelectByDelta(greeks, Val(delta), "C")
    /\ pc' = "selected"
    /\ UNCHANGED << args, exc, error, conn, subchain, dicts, all_strikes,
                    selected_put, selected_call, spread_strike, put_strike,
                    call_strike, put_spread_strike, call_spread_strike,
                    pricing, ordering, harness >>

\* the put-side scan (diff = abs(g.delta * 100 + delta))
SelectPut ==
    /\ cmd = "select" /\ pc = "select" /\ side = "P"
    /\ selected' = SelectByDelta(greeks, Val(delta), "P")
    /\ pc' = "selected"
    /\ UNCHANGED << args, exc, error, conn, subchain, dicts, all_strikes,
                    selected_put, selected_call, spread_strike, put_strike,
                    call_strike, put_spread_strike, call_spread_strike,
                    pricing, ordering, harness >>

NextSel == SelectCall \/ SelectPut

SpecSel == InitSel /\ [][NextSel]_vars

(* ----------------------- choose_expiration alone ---------------------- *)

\* variant of is_monthly that takes every Friday
is_friday(day) == day.weekday = 4

\* day.weekday() == 4 and 15 <= day.day <= 21
is_monthly(day) == day.weekday = 4 /\ 15 <= day.day /\ day.day <= 21

\* dates of 2026: a Thursday, monthly Fridays (15th, 16th, 21st) and other Fridays
Dates ==
    { Date(1, 15, 3), Date(1, 16, 4), Date(1, 23, 4), Date(5, 15, 4),
      Date(5, 22, 4), Date(8, 14, 4), Date(8, 21, 4) }

\* the expirations of a chain, in the order the chain lists them
ExpirationLists ==
    UNION { SetOrders(S) : S \in { T \in SUBSET Dates : Cardinality(T) <= MaxExps } }

\* what the operator may type at the expiration prompt
RawInputs ==
    { << >>, << "1" >>, << "2" >>, << "3" >>, << "0" >>, << "9" >>, << "x" >>,
      << " " >>, << "-", "1" >>, << " ", "2" >>, << "1", "0" >>, << "2", "x" >> }

\* list.index(x), counted from 1; 0 stands for the ValueError of a missing x
IndexOf(seq, x) ==
    IF \E i \in 1..Len(seq) : seq[i] = x
    THEN Min({ i \in 1..Len(seq) : seq[i] = x })
    ELSE 0

InitExp ==
    /\ InitRest /\ InitNoCommand
    /\ feed = << >> /\ pos = 0 /\ n_events = 0 /\ skip = NoneSym
    /\ greeks = << >> /\ side = "C"
    /\ cmd = "choose_expiration" /\ pc = "choose_expiration"
    /\ expirations \in ExpirationLists
    /\ tasty_monthly \in { Date(1, 16, 4), Date(5, 15, 4), Date(8, 21, 4) }
    /\ include_weeklies \in BOOLEAN
    /\ exps = << >> /\ default = 0 /\ choice = 0 /\ raw = NoRaw
    /\ expiration = NoDate

\* exps, the monthly filter, default = exps.index(get_tasty_monthly()), the
\* printed list and choice = 0
ListExpirations ==
    /\ cmd = "choose_expiration" /\ pc = "choose_expiration"
    /\ LET kept == IF ~include_weeklies THEN SelectSeq(expirations, is_monthly)
                   ELSE expirations
           idx == IndexOf(kept, tasty_monthly)
       IN /\ exps' = kept
          /\ IF idx = 0
             THEN pc' = "raised" /\ exc' = "ValueError" /\ default' = default
             ELSE pc' = "prompt" /\ exc' = exc /\ default' = idx - 1
    /\ choice' = 0
    /\ UNCHANGED << args, error, conn, subchain, dicts, picks, pricing, ordering,
                    feed, pos, n_events, skip, greeks, side, expirations,
                    tasty_monthly, include_weeklies, raw, expiration >>

\* one pass of the while loop: a line is read; int(raw) or the ValueError
\* branch; the return when the loop ends
PromptExpiration ==
    /\ cmd = "choose_expiration" /\ pc = "prompt"
    /\ choice \notin 1..Len(exps)
    /\ \E line \in RawInputs :
        LET n == ParseInt(line)
        IN /\ raw' = line
           /\ IF n = None
              THEN /\ choice' = choice
                   /\ IF line = << >>
                      THEN pc' = "returned" /\ expiration' = exps[default + 1]
                      ELSE pc' = pc /\ expiration' = expiration
              ELSE /\ choice' = Val(n)
                   /\ IF Val(n) \in 1..Len(exps)
                      THEN pc' = "returned" /\ expiration' = exps[Val(n)]
                      ELSE pc' = pc /\ expiration' = expiration
    /\ UNCHANGED << args, exc, error, conn, subchain, dicts, picks, pricing,
                    ordering, feed, pos, n_events, skip, greeks, side,
                    expirations, tasty_monthly, include_weeklies, exps, default >>

NextExp == ListExpirations \/ PromptExpiration

SpecExp == InitExp /\ [][NextExp]_vars

(* ============================== claims ================================ *)

Max(S) == CHOOSE x \in S : \A y \in S : x >= y

\* harness: the mapping of the aggregator under test
AggDict == IF cmd = "listen_quotes" THEN quote_dict ELSE greeks_dict

\* harness: event i of the feed is stored (it is not a skipped quote)
Accepted(i) == cmd = "listen_greeks" \/ feed[i].eventSymbol # skip

\* harness: the symbols of the accepted events among the first k of the feed
AcceptedSymbols(k) == { feed[i].eventSymbol : i \in { j \in 1..k : Accepted(j) } }

\* harness: the last event of symbol sym among the first k events of the feed
LastOf(sym, k) == feed[Max({ i \in 1..k : feed[i].eventSymbol = sym })]

(* C1: the aggregator consumes the feed in order, an accepted event          *)
(* overwrites the entry of its symbol, and the loop returns at the first     *)
(* consumed event after which the mapping holds n distinct symbols; each key *)
(* then maps to the most recent event delivered for its symbol.              *)
C1_ReturnsAtFirstCompletion ==
    cmd \in { "listen_quotes", "listen_greeks" } =>
        /\ DOMAIN AggDict = AcceptedSymbols(pos)
        /\ \A sym \in DOMAIN AggDict : AggDict[sym] = LastOf(sym, pos)
        /\ pos > 0 => (pc = "returned" <=> DictLen(AggDict) = n_events)
        /\ pc = "returned" =>
              \A k \in 1..(pos - 1) : Cardinality(AcceptedSymbols(k)) # n_events

\* a run that returned with n = 2 after an entry was overwritten
C1_Witness ==
    /\ cmd \in { "listen_quotes", "listen_greeks" }
    /\ pc = "returned" /\ n_events = 2 /\ pos = 3
    /\ feed[1].eventSymbol = feed[2].eventSymbol /\ feed[1] # feed[2]
    /\ AggDict[feed[1].eventSymbol] = feed[2]

\* the feed of the example: X bid 1.00, Y bid 2.00, X bid 1.20
ExampleFeed ==
    << QuoteEvent(SymX, 100, 110), QuoteEvent(SymY, 200, 210),
       QuoteEvent(SymX, 120, 130) >>

Bids(d) == [sym \in DOMAIN d |-> d[sym].bidPrice]

(* C2 as stated: for the feed [X 1.0, Y 2.0, X 1.2] and expected {X, Y}, the *)
(* returned mapping is {X: 1.2, Y: 2.0}.                                     *)
C2_ExampleKeepsLastOfFeed ==
    (cmd = "listen_quotes" /\ feed = ExampleFeed /\ n_events = 2 /\ pc = "returned")
        => Bids(quote_dict) = (SymX :> 120 @@ SymY :> 200)

(* C2 amended: the returned snapshot holds, for every symbol in it, the last *)
(* event of that symbol among the events consumed up to the return; for the  *)
(* feed [X 1.0, Y 2.0, X 1.2] with n = 2 it is {X: 1.0, Y: 2.0}, returned    *)
(* after two events (the third is not consumed).                             *)
C2_SnapshotAtCompletion ==
    (cmd = "listen_quotes" /\ pc = "returned") =>
        /\ \A sym \in DOMAIN quote_dict : quote_dict[sym] = LastOf(sym, pos)
        /\ (feed = ExampleFeed /\ n_events = 2) =>
              (pos = 2 /\ Bids(quote_dict) = (SymX :> 100 @@ SymY :> 200))

C2_Witness ==
    cmd = "listen_quotes" /\ feed = ExampleFeed /\ n_events = 2 /\ pc = "returned"

\* an aggregation step waits for a subscribed symbol that has not reported
AwaitingSymbol ==
    \/ pc = "listen_greeks" /\ Range(dxfeeds) \ DOMAIN greeks_dict # {}
    \/ pc = "listen_quotes" /\ Range(dxfeeds) \ DOMAIN quote_dict # {}

(* C3: an aggregation step whose subscribed symbol never reports does not    *)
(* wait forever: in every state where a command waits for such a symbol a    *)
(* next step is possible (the bounded wait expiring, the command aborting).  *)
C3_NoEndlessWait == AwaitingSymbol => ENABLED Next

\* the symbols the Greeks aggregation of the command was subscribed for
GreeksExpected ==
    IF cmd = "chain"
    THEN Range(CallDxfeeds(all_strikes)) \cup Range(PutDxfeeds(all_strikes))
    ELSE Range(GreeksDxfeeds)

\* listen_greeks has returned a mapping / listen_quotes has returned a mapping
GreeksReturned ==
    /\ cmd \in { "call", "put", "strangle", "chain" }
    /\ pc \notin { "start", "param_error", "validated", "streaming",
                   "get_underlying", "listen_greeks" }
    /\ IF cmd = "chain" THEN exc # "IndexError" ELSE UsesDelta /\ subGreeks # {}

QuotesReturned ==
    /\ cmd = "chain" \/ cmd = "strangle" \/ (cmd \in { "call", "put" } /\ Truthy(width))
    /\ \/ pc \in { "priced", "price_set", "legs_built", "reviewed", "rejected",
                   "declined", "submitted", "chain_printed" }
       \/ pc = "raised" /\ exc = "KeyError"

(* C4: whenever an aggregation step of call, put, strangle or chain has      *)
(* returned a mapping, its key set is exactly the set of symbols subscribed  *)
(* for that step, and no later lookup of a subscribed symbol fails.          *)
C4_KeysAreSubscribed ==
    /\ GreeksReturned => DOMAIN greeks_dict = GreeksExpected
    /\ QuotesReturned =>
          DOMAIN quote_dict = (IF cmd = "chain" THEN GreeksExpected ELSE Range(dxfeeds))
    /\ exc # "KeyError"

\* an iron condor by delta is priced: both aggregations have returned
C4_Witness ==
    /\ cmd = "strangle" /\ Truthy(width) /\ delta # None /\ pc = "priced"
    /\ DictLen(quote_dict) = 4 /\ DictLen(greeks_dict) = 2 * NStrikes

\* harness: the quotes consumed so far, without those of the skip symbol
ConsumedWithoutSkip ==
    SelectSeq(SubSeq(feed, 1, pos), LAMBDA e : e.eventSymbol # skip)

\* harness: the mapping after storing the first k events of seq one by one
RECURSIVE StoredFrom(_, _)
StoredFrom(seq, k) ==
    IF k = 0 THEN EmptyDict
    ELSE DictSet(StoredFrom(seq, k - 1), seq[k].eventSymbol, seq[k])

(* C5: listen_quotes with skip symbol S never stores an event of S and never *)
(* counts one toward completion; the mapping is the one the other events     *)
(* alone produce, wherever the events of S arrive in the stream.             *)
C5_SkipIgnored ==
    (cmd = "listen_quotes" /\ skip # NoneSym) =>
        /\ skip \notin DOMAIN quote_dict
        /\ quote_dict = StoredFrom(ConsumedWithoutSkip, Len(ConsumedWithoutSkip))
        /\ pc = "returned" =>
              Cardinality({ e.eventSymbol : e \in Range(ConsumedWithoutSkip) }) = n_events

\* a run with skip = the underlying returned two symbols after consuming a
\* quote of the underlying between them
C5_Witness ==
    /\ cmd = "listen_quotes" /\ skip = Underlying /\ pc = "returned"
    /\ n_events = 2 /\ pos = 3
    /\ feed[2].eventSymbol = Underlying

\* call / put were given a strike: `strike` is set and is not the strike the
\* delta scan assigned
StrikeGiven == strike # None /\ selected = Unbound

\* the combinations of strike and delta options the commands are said to reject
BadCombination ==
    IF cmd \in { "call", "put" }
    THEN (StrikeGiven /\ delta # None) \/ (strike = None /\ delta = None)
    ELSE /\ cmd = "strangle"
         /\ \/ delta # None /\ (call # None \/ put # None)
            \/ delta = None /\ (call = None \/ put = None)

\* nothing was opened: no session, no streamer, no subscription
NothingOpened ==
    ~sesh /\ streamer = "none" /\ subGreeks = {} /\ subQuotes = {}

(* C6: call / put given both strike and delta, or neither, and strangle      *)
(* given delta together with a strike, or neither delta nor both strikes,    *)
(* end with a parameter error before any session, streamer or subscription   *)
(* is created.                                                               *)
C6_BadCombinationRejected ==
    BadCombination =>
        (NothingOpened /\ (pc \in Terminal => pc = "param_error"))

(* C7: a target delta is rejected exactly when it lies outside [-99, 99]:    *)
(* a delta with |delta| > 99 ends in a parameter error with nothing opened,  *)
(* and a delta in -99..99 (0 included) given without a strike passes the     *)
(* parameter checks.                                                         *)
C7_DeltaRejectedIffOutOfRange ==
    (cmd \in { "call", "put", "strangle" } /\ delta # None) =>
        /\ Abs(Val(delta)) > 99 =>
              (pc \in { "start", "param_error" } /\ NothingOpened)
        /\ (Abs(Val(delta)) <= 99 /\ strike = None /\ call = None /\ put = None)
              => pc # "param_error"

\* the explicit strike of call / put and, with a width, the far strike exist
StrikeResolvable ==
    /\ Val(strike) \in StrikePrices(subchain)
    /\ Truthy(width) => FarStrike \in StrikePrices(subchain)

(* C8: call / put with a strike and no delta make no Greeks subscription,    *)
(* do not fail when the strike (and far strike) are in the chain, subscribe  *)
(* to the quote of that strike's contract before pricing, and build the      *)
(* first leg on that strike.                                                 *)
C8_ExplicitStrikeIsPriced ==
    (cmd \in { "call", "put" } /\ strike # None /\ delta = None) =>
        /\ subGreeks = {}
        /\ (pc \notin { "start", "validated", "streaming", "param_error" }
              /\ StrikeResolvable) => pc # "raised"
        /\ pc \in { "get_event", "listen_quotes", "priced" } =>
              SideSymbol(Val(strike)) \in subQuotes
        /\ legs # << >> => legs[1].symbol.strike_price = Val(strike)

\* the deviation of reading i as the claim defines it
Deviation(i) ==
    IF side = "C" THEN Abs(greeks[i].delta - Val(delta))
    ELSE Abs(greeks[i].delta + Val(delta))

(* C9: selection over a non-empty sequence of readings and a target in       *)
(* [-99, 99] returns a reading of minimal absolute deviation, the first one  *)
(* in iteration order among those of minimal deviation.                      *)
C9_SelectsFirstMinimal ==
    (cmd = "select" /\ pc = "selected" /\ greeks # << >>) =>
        \E i \in 1..Len(greeks) :
            /\ selected = greeks[i]
            /\ \A j \in 1..Len(greeks) : Deviation(i) <= Deviation(j)
            /\ \A j \in 1..(i - 1) : Deviation(j) > Deviation(i)

(* C10: delta selection over an empty set of readings ends the command with  *)
(* NoMatchError: the command is never left waiting for the Greeks of an      *)
(* empty strike list, and no scan ends with selected = None carried into     *)
(* strike resolution.                                                        *)
C10_NoSentinelSelection ==
    /\ (cmd \in { "call", "put", "strangle" } /\ pc = "listen_greeks" /\ feedAlive)
          => dxfeeds # << >>
    /\ (cmd \in { "call", "put", "strangle" } /\
          (selected = NoneSym \/ selected_put = NoneSym \/ selected_call = NoneSym))
          => (pc = "raised" /\ exc = "NoMatchError")

\* the (bid, ask) the command computes from its leg quotes when buying
BoughtBid ==
    IF cmd \in { "call", "put" } /\ ~Truthy(width) THEN quote.bidPrice
    ELSE ComboBid(quote_dict)

BoughtAsk ==
    IF cmd \in { "call", "put" } /\ ~Truthy(width) THEN quote.askPrice
    ELSE ComboAsk(quote_dict)

(* C11: combo pricing is antisymmetric under reversal: a strategy entered    *)
(* with a positive quantity is priced (bid, ask) from its leg quotes, and    *)
(* the same strategy entered with a negative quantity is priced (-ask, -bid) *)
(* from the same quotes; a single leg quoted (b, a) prices as (b, a) bought  *)
(* and (-a, -b) sold.                                                        *)
C11_PricingAntisymmetric ==
    (cmd \in { "call", "put", "strangle" } /\ pc = "priced") =>
        /\ quantity > 0 => (bid = BoughtBid /\ ask = BoughtAsk)
        /\ quantity < 0 => (bid = -BoughtAsk /\ ask = -BoughtBid)

\* the action a leg of primary polarity / of opposite polarity must have
IsPrimary(leg) ==
    /\ quantity < 0 => leg.action = "SELL_TO_OPEN"
    /\ quantity > 0 => leg.action = "BUY_TO_OPEN"
    /\ leg.quantity = Abs(quantity)

IsOpposite(leg) ==
    /\ quantity < 0 => leg.action = "BUY_TO_OPEN"
    /\ quantity > 0 => leg.action = "SELL_TO_OPEN"
    /\ leg.quantity = Abs(quantity)

LegSymbols == { legs[i].symbol : i \in 1..Len(legs) }

\* the leg on contract o has polarity P
LegOn(o, P(_)) == \E i \in 1..Len(legs) : legs[i].symbol = o /\ P(legs[i])

\* the option type of the command: call -> "C", put -> "P"
OwnType == IF cmd = "call" THEN "C" ELSE "P"

(* C12: in a vertical spread of call / put with a non-zero width the leg at  *)
(* the selected strike has the primary polarity of quantity, the leg at the  *)
(* far strike (strike + width for calls, strike - width for puts) has the    *)
(* opposite action, both with size |quantity|.                               *)
C12_VerticalPolarity ==
    (cmd \in { "call", "put" } /\ Truthy(width) /\ legs # << >>) =>
        /\ Len(legs) = 2
        /\ spread_strike = (IF cmd = "call" THEN Val(strike) + Val(width)
                            ELSE Val(strike) - Val(width))
        /\ LegOn(Option(OwnType, Val(strike)), IsPrimary)
        /\ LegOn(Option(OwnType, spread_strike), IsOpposite)

(* C13: in an iron condor (strangle with a width) the put leg at P and the   *)
(* call leg at C have the primary polarity, the put leg at P - width and the *)
(* call leg at C + width the opposite one, whatever the order of the four    *)
(* strikes.                                                                  *)
C13_IronCondorPolarity ==
    (cmd = "strangle" /\ Truthy(width) /\ Val(width) > 0 /\ legs # << >>) =>
        /\ Len(legs) = 4
        /\ put_spread_strike = put_strike - Val(width)
        /\ call_spread_strike = call_strike + Val(width)
        /\ LegOn(Option("P", put_strike), IsPrimary)
        /\ LegOn(Option("C", call_strike), IsPrimary)
        /\ LegOn(Option("P", put_spread_strike), IsOpposite)
        /\ LegOn(Option("C", call_spread_strike), IsOpposite)

(* C14: the legs of every order built by call, put and strangle are in       *)
(* ascending order of strike price, whatever order the resolver returned the *)
(* contracts in.                                                             *)
C14_LegsAscending ==
    (cmd \in { "call", "put", "strangle" } /\ (Truthy(width) => Val(width) > 0)) =>
        \A i, j \in 1..Len(legs) :
            i < j => legs[i].symbol.strike_price <= legs[j].symbol.strike_price

(* C15: a single option (call / put without width) has exactly one leg, a    *)
(* strangle without width exactly two (one put, one call); every such leg    *)
(* has the primary polarity: SELL_TO_OPEN for a negative quantity,           *)
(* BUY_TO_OPEN for a positive one, size |quantity|.                          *)
C15_PrimaryLegsOnly ==
    (cmd \in { "call", "put", "strangle" } /\ ~Truthy(width) /\ legs # << >>) =>
        /\ \A i \in 1..Len(legs) : IsPrimary(legs[i])
        /\ IF cmd = "strangle"
           THEN /\ Len(legs) = 2
                /\ LegSymbols = { Option("P", put_strike), Option("C", call_strike) }
           ELSE /\ Len(legs) = 1
                /\ legs[1].symbol = Option(OwnType, Val(strike))

\* a sold strangle without width has its two legs built
C15_Witness ==
    /\ cmd = "strangle" /\ ~Truthy(width) /\ quantity < 0
    /\ pc = "legs_built" /\ Len(legs) = 2
    /\ legs[1].action = "SELL_TO_OPEN" /\ legs[2].action = "SELL_TO_OPEN"

\* a rejected dry run ends the invocation unprompted, a decline ends it, and
\* neither submits
NoSubmissionOtherwise ==
    /\ pc = "rejected" =>
          (data = "rejected" /\ error = DryRunRejected /\ answer = NoAnswer /\ placed = 0)
    /\ pc = "declined" => (data = "accepted" /\ placed = 0)
    /\ placed > 0 => (pc = "submitted" /\ placed = 1 /\ data = "accepted")

C17_LegQuantityPositive ==
    data # "none" =>
        \A i \in 1..Len(order.legs) :
            /\ order.legs[i].quantity >= 1
            /\ order.legs[i].action \in { "BUY_TO_OPEN", "SELL_TO_OPEN" }

\* the strikes of the four legs of an iron condor
CondorStrikes ==
    { put_strike, call_strike, put_spread_strike, call_spread_strike }

(* C18: an iron condor (strangle with a width) whose four legs resolve to    *)
(* fewer than 4 distinct strikes is rejected with InvalidCombinationError    *)
(* before any order is validated or submitted.                               *)
C18_CondorNeedsFourStrikes ==
    (cmd = "strangle" /\ Truthy(width) /\ Val(width) > 0
        /\ Cardinality(CondorStrikes) < 4) =>
            (data = "none" /\ placed = 0)

(* C19: on every way an invocation ends after the streamer was opened        *)
(* (submitted, declined, dry run rejected, lookup or selection failure, the  *)
(* chain printed) the streamer scope has been left: no terminal state has    *)
(* the streamer open.                                                        *)
C19_StreamerReleased ==
    pc \in Terminal => streamer = (IF pc = "param_error" THEN "none" ELSE "closed")

\* a spread strike lookup of call / put failed inside the streamer scope
C19_Witness ==
    /\ cmd \in { "call", "put" } /\ pc = "raised" /\ exc = "StopIteration"
    /\ sesh /\ streamer = "closed"

\* a strike asked for by price (or a spread strike derived from it) is not
\* in the chosen expiration
StrikeMissing ==
    /\ pc \notin { "start", "validated", "param_error" } /\ delta = None
    /\ subchain # << >>
    /\ IF cmd \in { "call", "put" }
       THEN /\ strike # None
            /\ \/ Val(strike) \notin StrikePrices(subchain)
               \/ Truthy(width) /\ FarStrike \notin StrikePrices(subchain)
       ELSE /\ cmd = "strangle" /\ put # None /\ call # None
            /\ \/ Val(put) \notin StrikePrices(subchain)
               \/ Val(call) \notin StrikePrices(subchain)
               \/ Truthy(width) /\ Val(put) - Val(width) \notin StrikePrices(subchain)
               \/ Truthy(width) /\ Val(call) + Val(width) \notin StrikePrices(subchain)

(* C20: when an explicitly requested strike, or a spread strike derived from *)
(* it, is not in the chosen expiration, the command fails with NotFoundError *)
(* and no order is built, validated or submitted.                            *)
C20_MissingStrikeIsNotFound ==
    StrikeMissing =>
        /\ pc \in Terminal => (pc = "raised" /\ exc = "NotFoundError")
        /\ legs = << >> /\ data = "none" /\ placed = 0

\* seq is a run of neighbouring strikes of the expiration
IsContiguousIn(seq, strikes_) ==
    \E off \in 0..(Len(strikes_) - Len(seq)) :
        \A i \in 1..Len(seq) : seq[i] = strikes_[off + i]

(* C21: the strike window of chain for a requested count and any pivot       *)
(* price: with more than 2 * count strikes in the expiration the window is   *)
(* exactly 2 * count contiguous strikes (count below and count above the     *)
(* strike nearest the pivot), otherwise it is the full strike list.          *)
C21_ChainWindow ==
    (cmd = "chain" /\ pc \notin { "start", "get_underlying" }) =>
        /\ pc # "raised"
        /\ IF strikes * 2 < Len(subchain)
           THEN Len(all_strikes) = 2 * strikes /\ IsContiguousIn(all_strikes, subchain)
           ELSE all_strikes = subchain

\* the line read is a number of an offered entry
InRange(line) ==
    ParseInt(line) # None /\ Val(ParseInt(line)) \in 1..Len(exps)

(* C22: choose_expiration returns only a member of the list it offered; with *)
(* the weeklies flag off every offered and returned date is a Friday with    *)
(* day of month in 15..21; an empty line returns the default monthly         *)
(* expiration, a number in 1..len(list) returns that entry, and any other    *)
(* line prompts again without returning.                                     *)
C22_ChooseExpiration ==
    cmd = "choose_expiration" =>
        /\ pc \in { "prompt", "returned" } =>
              /\ Range(exps) \subseteq Range(expirations)
              /\ ~include_weeklies =>
                    \A e \in Range(exps) : e.weekday = 4 /\ e.day \in 15..21
        /\ pc = "returned" =>
              /\ expiration \in Range(exps)
              /\ IF raw = << >> THEN expiration = tasty_monthly
                 ELSE InRange(raw) /\ expiration = exps[Val(ParseInt(raw))]
        /\ (pc = "prompt" /\ raw # NoRaw) => (raw # << >> /\ ~InRange(raw))

\* with weeklies off the operator typed 2 and got the second offered date
C22_Witness ==
    /\ cmd = "choose_expiration" /\ pc = "returned" /\ ~include_weeklies
    /\ raw = << "2" >> /\ Len(exps) >= 2 /\ expiration = exps[2]
    /\ Len(expirations) > Len(exps)

\* the entries Decimal() reads as a number, by the text typed
EntryValue(text) ==
    (CHOOSE e \in PriceEntries : e.text = text).decimal

\* p is (bid_ + ask_) / 2 rounded to a whole cent, halves to the even cent
IsRoundedMid(p, bid_, ask_) ==
    /\ Abs(2 * p - (bid_ + ask_)) <= 1
    /\ (bid_ + ask_) % 2 = 1 => p % 2 = 0

(* C23: the order's limit price is the operator's entry when one is given,   *)
(* and otherwise (bid + ask) / 2 rounded to 2 decimal places, half to even,  *)
(* of the combo bid and ask exactly as summed from the leg quotes, with no   *)
(* rounding before; the order carries that price.                            *)
C23_LimitPrice ==
    (cmd \in { "call", "put", "strangle" } /\ price # None) =>
        /\ price_input # "" => price = EntryValue(price_input)
        /\ price_input = "" =>
            /\ IsRoundedMid(Val(price), bid, ask)
            /\ bid = BoughtBid /\ ask = BoughtAsk
        /\ order # NoOrder => order.price = Val(price)

C23_Witness ==
    /\ pc = "reviewed" /\ price_input = "" /\ (bid + ask) % 2 = 1
    /\ order.price = RoundHalfEven(bid + ask)
    /\ quantity < 0


\* the calls a command makes to the feed and to the sink
Ops ==
    { "subscribe_greeks", "listen_greeks", "subscribe_quotes", "listen_quotes",
      "get_event", "dry_run", "place_order" }

\* how many times op was called so far
Count(op) == Cardinality({ i \in 1..Len(requests) : requests[i].op = op })

(* C24: nothing is retried: in one invocation of call, put or strangle, each *)
(* subscription, each aggregation, the dry-run validation and the live       *)
(* submission is called at most once (one wait for quotes: listen_quotes or  *)
(* get_event), and once the invocation has ended in any way (rejected,       *)
(* declined, submitted, an error) no further step runs.                      *)
C24_NoRetry ==
    cmd \in { "call", "put", "strangle" } =>
        /\ \A op \in Ops : Count(op) <= 1
        /\ Count("listen_quotes") + Count("get_event") <= 1
        /\ placed = Count("place_order")
        /\ (pc \in Terminal /\ pc # "param_error") => ~ENABLED Next
        /\ pc = "rejected" => (Count("dry_run") = 1 /\ Count("place_order") = 0)

\* an invocation that selected by delta, priced a spread, validated and
\* submitted: every call was made, each once
C24_Witness ==
    /\ cmd \in { "call", "put", "strangle" } /\ pc = "submitted"
    /\ \A op \in Ops \ { "get_event" } : Count(op) = 1
    /\ Len(requests) = 6


\* the positions of the calls of op in the log
CallsOf(op) == { i \in 1..Len(requests) : requests[i].op = op }

(* C25: the order is not changed after construction: the order submitted     *)
(* live has the same legs, limit price, time in force and price effect as    *)
(* the order sent to the dry-run validation before it in the same            *)
(* invocation, and both are the order as NewOrder built it from the legs,    *)
(* the price and the arguments.                                              *)
C25_OrderUnchanged ==
    /\ \A i \in CallsOf("place_order") :
        \E j \in CallsOf("dry_run") :
            /\ j < i
            /\ requests[i].order.legs = requests[j].order.legs
            /\ requests[i].order.price = requests[j].order.price
            /\ requests[i].order.time_in_force = requests[j].order.time_in_force
            /\ requests[i].order.price_effect = requests[j].order.price_effect
    /\ \A i \in CallsOf("dry_run") \cup CallsOf("place_order") :
        requests[i].order = order
    /\ order # NoOrder => (order = NewOrder(legs) /\ order.legs = legs)

\* an iron condor was validated and then submitted
C25_Witness ==
    /\ pc = "submitted" /\ Len(order.legs) = 4
    /\ CallsOf("dry_run") # {} /\ CallsOf("place_order") # {}
    /\ requests[Len(requests)] = [op |-> "place_order", order |-> order]


\* bid and ask of the combo have been computed
Priced ==
    \/ pc \in { "priced", "price_set", "legs_built", "reviewed", "rejected",
                "submitted", "declined" }
    \/ pc = "raised" /\ exc = "InvalidOperation"

\* the leg quotes the combo price was computed from
LegQuotes ==
    IF cmd \in { "call", "put" } /\ ~Truthy(width) THEN { quote }
    ELSE IF cmd = "strangle" /\ ~Truthy(width)
    THEN { quote_dict[s] : s \in DOMAIN quote_dict }
    ELSE { quote_dict[s] : s \in QuoteLookups }

LegQuotesOrdered == \A q \in LegQuotes : q.bidPrice <= q.askPrice

(* C26: if every leg quote has bid <= ask, the combo price of call, put and  *)
(* strangle has bid <= mid <= ask with mid = (bid + ask) / 2, for a single   *)
(* leg, a vertical, a strangle and an iron condor.                           *)
C26_MidBetweenBidAndAsk ==
    (cmd \in { "call", "put", "strangle" } /\ Priced /\ LegQuotesOrdered) =>
        /\ 2 * bid <= bid + ask
        /\ bid + ask <= 2 * ask

\* an iron condor priced from four ordered leg quotes
C26_Witness ==
    /\ cmd = "strangle" /\ Truthy(width) /\ pc = "priced"
    /\ Cardinality(LegQuotes) = 4 /\ LegQuotesOrdered
    /\ bid < ask

\* a combo priced from a crossed leg quote has its bid above its ask
C26_CrossedReached ==
    /\ cmd \in { "call", "put", "strangle" } /\ Priced /\ ~LegQuotesOrdered
    /\ bid > ask


\* the orders built or sent to the sink so far
OrdersSeen ==
    (IF order = NoOrder THEN {} ELSE { order })
    \cup { requests[i].order : i \in CallsOf("dry_run") \cup CallsOf("place_order") }

(* C27: every order built by call, put and strangle is a LIMIT order, its    *)
(* time_in_force is GTC exactly when the gtc flag is set and DAY otherwise,  *)
(* its price_effect is CREDIT exactly when quantity < 0 and DEBIT otherwise, *)
(* whatever the sign of the limit price and the shape of the strategy.       *)
C27_OrderAttributes ==
    \A o \in OrdersSeen :
        /\ o.order_type = "LIMIT"
        /\ o.time_in_force = (IF gtc THEN "GTC" ELSE "DAY")
        /\ o.price_effect = (IF quantity < 0 THEN "CREDIT" ELSE "DEBIT")

\* a bought spread (quantity > 0) with a negative limit price, good till
\* cancelled, was sent to validation as a DEBIT
C27_Witness ==
    /\ pc = "reviewed" /\ quantity > 0 /\ gtc /\ Len(legs) = 2
    /\ order.price < 0
    /\ order.price_effect = "DEBIT" /\ order.time_in_force = "GTC"


\* what get_confirmation is to do with the line typed, by its first character
Expected(typed, dflt) ==
    IF typed = << >> THEN dflt
    ELSE IF typed[1] \in { "y", "Y" } THEN "True"
    ELSE IF typed[1] \in { "n", "N" } THEN "False"
    ELSE "again"

(* C28: get_confirmation returns the default on an empty answer, True on an  *)
(* answer starting with y or Y, False on an answer starting with n or N, and *)
(* prompts again on any other answer; at the 'Send order?' prompt (default   *)
(* True) an empty answer places the order, an answer starting with n never   *)
(* does, and any other answer than those three leaves the prompt open.       *)
C28_GetConfirmation ==
    /\ \A typed \in Answers : \A dflt \in { "True", "False" } :
        get_confirmation(Lower(typed), dflt) = Expected(typed, dflt)
    /\ answer # NoAnswer =>
        /\ answer = << >> => (pc = "submitted" /\ placed = 1)
        /\ (answer # << >> /\ answer[1] = "y") => (pc = "submitted" /\ placed = 1)
        /\ (answer # << >> /\ answer[1] = "n") => (pc = "declined" /\ placed = 0)
        /\ (answer # << >> /\ answer[1] \notin { "y", "n" }) =>
            (pc = "reviewed" /\ placed = 0)

\* the operator answered "No" at the review prompt and nothing was placed
C28_Witness ==
    /\ pc = "declined" /\ answer = << "n", "o" >> /\ placed = 0
    /\ data = "accepted" /\ CallsOf("place_order") = {}

\* an answer that is none of the three was given and the prompt is still open
C28_Reprompted ==
    pc = "reviewed" /\ answer = << " ", "y" >> /\ placed = 0


=============================================================================
